---- MODULE Spec2Model ----
(***************************************************************************)
(* SignSync Meet backend: the room-scoped WebSocket broadcast manager      *)
(* (backend/main.py), the sign-language sequence matcher                   *)
(* (backend/ai_services/sign_recognition.py), the voice transcription      *)
(* fallback chain (backend/ai_services/voice_recognition.py) and the       *)
(* caption record (backend/ai_services/caption_service.py).                *)
(***************************************************************************)
EXTENDS Integers, Sequences, FiniteSets, TLC

\* ------------------------------------------------------------------------
\* Bounds of the model
\* ------------------------------------------------------------------------
NumConns == 3      \* WebSocket connections that may ever be opened
NumRooms == 2      \* room ids used in the /ws/{room_id} path
MaxMsgs  == 1      \* caption events handled over the whole run
NumSessions == 2   \* signers whose frames reach the recognizer

Conns == 1..NumConns
Rooms == 1..NumRooms
NoConn == 0

VARIABLES
    active_connections,   \* ConnectionManager.active_connections : list
    room_connections,     \* ConnectionManager.room_connections : dict room -> list
    pc,                   \* position of each connection's websocket_endpoint handler
    room_of,              \* the room_id path parameter of each connection
    broken,               \* whether a send_text on the connection raises
    inbox,                \* messages each connection's client has been sent
    next_msg,             \* number of the next caption message
    bc                    \* per handler: the broadcast_to_room call it is in / was last in

roomVars == <<active_connections, room_connections, pc, room_of, broken, inbox, next_msg, bc>>

VARIABLES
    sequence_buffer,      \* SignLanguageRecognizer.sequence_buffer
    is_model_ready,       \* SignLanguageRecognizer.is_model_ready
    frames,               \* recognize calls made so far
    last,                 \* the last recognize call: its inputs, tier and return value
    sessions              \* per sign session: the symbols it has had observed, as a
                          \* buffer of its own would hold them, and their number

signVars == <<sequence_buffer, is_model_ready, frames, last, sessions>>

VARIABLES
    google_ready,         \* GOOGLE_SPEECH_AVAILABLE and VoiceRecognizer.google_client is set
    vosk_ready,           \* VOSK_AVAILABLE and a Vosk model is loaded
    v,                    \* the voice_to_text call in progress / last made
    requests,             \* voice_to_text calls made so far
    caption_history,      \* CaptionService.caption_history
    next_id,              \* source of uuid4 ids and timestamps
    responses             \* what voice_to_text returned, call by call, with the serving tier

voiceVars == <<google_ready, vosk_ready, v, requests, caption_history, next_id, responses>>

VARIABLES
    inserted,             \* captions added since caption_history was last empty
    queried,              \* what the last call returned, if it was get_caption_history
    translation           \* the last translate_caption call: the caption passed,
                          \* as it read before and reads after, and the value returned

captionVars == <<inserted, queried, translation>>

\* what the actions of one component leave alone
otherThanRoom == <<signVars, voiceVars, captionVars>>

otherThanSign == <<roomVars, voiceVars, captionVars>>

otherThanVoice == <<roomVars, signVars, captionVars>>

otherThanCaption ==
    <<roomVars, signVars, google_ready, vosk_ready, v, requests, responses>>

\* ------------------------------------------------------------------------
\* Python list helpers
\* ------------------------------------------------------------------------
Range(s) == {s[i] : i \in DOMAIN s}

\* x in lst
Contains(lst, x) == \E i \in DOMAIN lst : lst[i] = x

\* index of the first occurrence of x in lst (x must occur)
FirstIndex(lst, x) == CHOOSE i \in DOMAIN lst : lst[i] = x /\ \A j \in 1..(i - 1) : lst[j] # x

\* lst.remove(x): deletes the first occurrence of x (the caller checks Contains)
ListRemove(lst, x) ==
    LET k == FirstIndex(lst, x)
    IN  [i \in 1..(Len(lst) - 1) |-> IF i < k THEN lst[i] ELSE lst[i + 1]]

\* number of occurrences of x in lst
Count(lst, x) == Cardinality({i \in DOMAIN lst : lst[i] = x})

\* mutations of the code, used to test the properties
IsExcludedNever(connection, exclude_websocket) == FALSE

RemoveBrokenSkipped(lst, connection) == lst

\* ------------------------------------------------------------------------
\* ConnectionManager and websocket_endpoint (backend/main.py)
\* ------------------------------------------------------------------------
NoBroadcast ==
    [room |-> 0, it |-> 0, cur |-> NoConn, msg |-> 0, start |-> << >>,
     failed |-> {}, changed |-> FALSE, status |-> "none"]

\* A structural change of room r's list is noted in every broadcast_to_room call
\* that is iterating over that list (bookkeeping for the properties only).
NoteChange(b, r, by) ==
    [s \in Conns |->
        IF s # by /\ b[s].status = "running" /\ b[s].room = r
        THEN [b[s] EXCEPT !.changed = TRUE]
        ELSE b[s]]

\* mutation of the code: disconnect leaves the room's list as it is
DisconnectRooms_Skipped(c, r) == room_connections

\* ConnectionManager.disconnect(websocket, room_id): the two lists after the call
DisconnectActive(c) ==
    IF Contains(active_connections, c)
    THEN ListRemove(active_connections, c)
    ELSE active_connections

DisconnectRooms(c, r) ==
    IF r \in DOMAIN room_connections /\ Contains(room_connections[r], c)
    THEN [room_connections EXCEPT ![r] = ListRemove(@, c)]
    ELSE room_connections

\* mutation of the code: the connection is appended to every room's list
JoinRoom_EveryRoom(rooms, c, r) ==
    [x \in DOMAIN rooms \cup {r} |->
        IF x \in DOMAIN rooms THEN Append(rooms[x], c) ELSE <<c>>]

\* `if room_id not in self.room_connections: self.room_connections[room_id] = []`
\* and `self.room_connections[room_id].append(websocket)`
JoinRoom(rooms, c, r) ==
    IF r \notin DOMAIN rooms
    THEN [x \in DOMAIN rooms \cup {r} |-> IF x = r THEN <<c>> ELSE rooms[x]]
    ELSE [rooms EXCEPT ![r] = Append(@, c)]

\* ConnectionManager.connect, called once at the start of websocket_endpoint
Connect(c, r) ==
    /\ UNCHANGED otherThanRoom
    /\ pc[c] = "new"
    /\ \A d \in Conns : d < c => pc[d] # "new"
    /\ \A q \in Rooms : q < r => q \in DOMAIN room_connections
    /\ active_connections' = Append(active_connections, c)
    /\ room_connections' = JoinRoom(room_connections, c, r)
    /\ room_of' = [room_of EXCEPT ![c] = r]
    /\ pc' = [pc EXCEPT ![c] = "receive"]
    /\ bc' = NoteChange(bc, r, c)
    /\ UNCHANGED <<broken, inbox, next_msg>>

\* The client goes away or the transport breaks: later sends on c raise.
ChannelBreak(c) ==
    /\ UNCHANGED otherThanRoom
    /\ pc[c] \notin {"new", "ended"}
    /\ ~broken[c]
    /\ broken' = [broken EXCEPT ![c] = TRUE]
    /\ UNCHANGED <<active_connections, room_connections, pc, room_of, inbox, next_msg, bc>>

\* receive_text raises WebSocketDisconnect: except-branch calls manager.disconnect
ReceiveDisconnect(c) ==
    /\ UNCHANGED otherThanRoom
    /\ pc[c] = "receive"
    /\ broken[c]
    /\ active_connections' = DisconnectActive(c)
    /\ room_connections' = DisconnectRooms(c, room_of[c])
    /\ pc' = [pc EXCEPT ![c] = "ended"]
    /\ bc' = NoteChange(bc, room_of[c], c)
    /\ UNCHANGED <<room_of, broken, inbox, next_msg>>

\* json.loads / message["type"] / voice_to_text raises: except Exception branch.
\* The endpoint function then returns and the server closes the socket.
EndByException(c) ==
    /\ pc[c] = "receive"
    /\ ~broken[c]
    /\ active_connections' = DisconnectActive(c)
    /\ room_connections' = DisconnectRooms(c, room_of[c])
    /\ pc' = [pc EXCEPT ![c] = "ended"]
    /\ broken' = [broken EXCEPT ![c] = TRUE]
    /\ bc' = NoteChange(bc, room_of[c], c)
    /\ UNCHANGED <<room_of, inbox>>

\* a message that makes the handler raise before any pipeline call
ReceiveMalformed(c) ==
    /\ EndByException(c)
    /\ UNCHANGED next_msg
    /\ UNCHANGED otherThanRoom

\* `if connection != exclude_websocket` fails: the connection is passed over
IsExcluded(connection, exclude_websocket) == connection = exclude_websocket

\* the except branch: self.room_connections[room_id].remove(connection)
RemoveBroken(lst, connection) == ListRemove(lst, connection)

\* mutation of the code: the loop runs over self.active_connections
BroadcastAdvance_AllActive(b, lst, exclude_websocket) ==
    LET rest == {j \in (b.it + 1)..Len(active_connections) :
                    active_connections[j] # exclude_websocket}
    IN  IF rest = {}
        THEN [b EXCEPT !.it = Len(active_connections), !.cur = NoConn,
                       !.status = "returned"]
        ELSE LET j == CHOOSE k \in rest : \A m \in rest : k <= m
             IN  [b EXCEPT !.it = j, !.cur = active_connections[j]]

\* mutation of the code: the loop runs over a copy of the list made when the
\* call started
BroadcastAdvance_Snapshot(b, lst, exclude_websocket) ==
    LET rest == {j \in (b.it + 1)..Len(b.start) :
                    b.start[j] # exclude_websocket}
    IN  IF rest = {}
        THEN [b EXCEPT !.it = Len(b.start), !.cur = NoConn, !.status = "returned"]
        ELSE LET j == CHOOSE k \in rest : \A m \in rest : k <= m
             IN  [b EXCEPT !.it = j, !.cur = b.start[j]]

\* `for connection in self.room_connections[room_id]` run on from a list
\* iterator that has consumed b.it elements of the live list lst, up to the
\* next `await connection.send_text(message)` or to the end of the loop.  No
\* other handler runs in between: the event loop switches tasks at awaits only.
BroadcastAdvance(b, lst, exclude_websocket) ==
    LET rest == {j \in (b.it + 1)..Len(lst) : ~IsExcluded(lst[j], exclude_websocket)}
    IN  IF rest = {}
        THEN [b EXCEPT !.it = Len(lst), !.cur = NoConn, !.status = "returned"]
        ELSE LET j == CHOOSE k \in rest : \A m \in rest : k <= m
             IN  [b EXCEPT !.it = j, !.cur = lst[j]]

\* mutation of the code: broadcast_to_room is started and not awaited
AfterAdvance_NotAwaited(b) == "receive"

\* where the handler is once broadcast_to_room is in state b
AfterAdvance(b) == IF b.status = "returned" THEN "bc_done" ELSE "bc_send"

\* An audio_data / image_data message: the result is built and
\* broadcast_to_room(message, room_id, exclude_websocket=websocket) is entered;
\* the for loop's iterator starts at index 0 of the room's list.
EnterBroadcast(c) ==
    /\ LET b == IF room_of[c] \in DOMAIN room_connections
                THEN BroadcastAdvance(
                        [room |-> room_of[c], it |-> 0, cur |-> NoConn, msg |-> next_msg,
                         start |-> room_connections[room_of[c]],
                         failed |-> {}, changed |-> FALSE, status |-> "running"],
                        room_connections[room_of[c]], c)
                ELSE [NoBroadcast EXCEPT !.status = "returned"]
       IN  /\ bc' = [bc EXCEPT ![c] = b]
           /\ pc' = [pc EXCEPT ![c] = AfterAdvance(b)]
    /\ UNCHANGED <<active_connections, room_connections, room_of, broken, inbox>>

\* the handler takes the message from receive_text and goes on to the broadcast
StartBroadcast(c) ==
    /\ pc[c] = "receive"
    /\ ~broken[c]
    /\ EnterBroadcast(c)

\* a caption event seen from the room only: its result is not looked at
ReceiveEvent(c) ==
    /\ next_msg <= MaxMsgs
    /\ next_msg' = next_msg + 1
    /\ StartBroadcast(c)
    /\ UNCHANGED otherThanRoom

\* `await connection.send_text(message)` completes and the loop runs on.  On an
\* exception the bare except runs self.room_connections[room_id].remove(connection);
\* list.remove of an element that is no longer in the list raises ValueError,
\* which leaves broadcast_to_room and reaches websocket_endpoint's
\* `except Exception`, whose branch disconnects the sender; the endpoint ends.
SendComplete(s) ==
    /\ UNCHANGED otherThanRoom
    /\ pc[s] = "bc_send"
    /\ LET p == bc[s].cur
           r == bc[s].room
       IN  IF ~broken[p]
           THEN LET b == BroadcastAdvance(bc[s], room_connections[r], s)
                IN  /\ inbox' = [inbox EXCEPT ![p] = Append(@, bc[s].msg)]
                    /\ bc' = [bc EXCEPT ![s] = b]
                    /\ pc' = [pc EXCEPT ![s] = AfterAdvance(b)]
                    /\ UNCHANGED <<active_connections, room_connections, broken>>
           ELSE IF Contains(room_connections[r], p)
                THEN LET lst == RemoveBroken(room_connections[r], p)
                         b == BroadcastAdvance([bc[s] EXCEPT !.failed = @ \cup {p}], lst, s)
                     IN  /\ room_connections' = [room_connections EXCEPT ![r] = lst]
                         /\ bc' = [NoteChange(bc, r, s) EXCEPT ![s] = b]
                         /\ pc' = [pc EXCEPT ![s] = AfterAdvance(b)]
                         /\ UNCHANGED <<active_connections, inbox, broken>>
                ELSE /\ active_connections' = DisconnectActive(s)
                     /\ room_connections' = DisconnectRooms(s, room_of[s])
                     /\ bc' = [NoteChange(bc, room_of[s], s) EXCEPT
                                  ![s] = [NoBroadcast EXCEPT !.status = "raised"]]
                     /\ pc' = [pc EXCEPT ![s] = "ended"]
                     /\ broken' = [broken EXCEPT ![s] = TRUE]
                     /\ UNCHANGED inbox
    /\ UNCHANGED <<room_of, next_msg>>

\* broadcast_to_room has returned: the handler goes round its `while True` loop
\* and waits in receive_text again.
BroadcastReturn(s) ==
    /\ UNCHANGED otherThanRoom
    /\ pc[s] = "bc_done"
    /\ pc' = [pc EXCEPT ![s] = "receive"]
    /\ bc' = [bc EXCEPT ![s] = NoBroadcast]
    /\ UNCHANGED <<active_connections, room_connections, room_of, broken, inbox, next_msg>>

\* GET /api/room/{room_id}/participants
get_room_participants(r) ==
    IF r \in DOMAIN room_connections THEN Len(room_connections[r]) ELSE 0

InitRoom ==
    /\ active_connections = << >>
    /\ room_connections = << >>
    /\ pc = [c \in Conns |-> "new"]
    /\ room_of = [c \in Conns |-> 0]
    /\ broken = [c \in Conns |-> FALSE]
    /\ inbox = [c \in Conns |-> << >>]
    /\ next_msg = 1
    /\ bc = [c \in Conns |-> NoBroadcast]

NextRoom ==
    \/ \E c \in Conns, r \in Rooms : Connect(c, r)
    \/ \E c \in Conns : ChannelBreak(c)
    \/ \E c \in Conns : ReceiveDisconnect(c)
    \/ \E c \in Conns : ReceiveMalformed(c)
    \/ \E c \in Conns : ReceiveEvent(c)
    \/ \E s \in Conns : SendComplete(s)
    \/ \E s \in Conns : BroadcastReturn(s)

\* ------------------------------------------------------------------------
\* Python values: None, str (a sequence of characters), list
\* ------------------------------------------------------------------------
None == [type |-> "NoneType", val |-> << >>]

PyStr(chars) == [type |-> "str", val |-> chars]

PyList(items) == [type |-> "list", val |-> items]

\* a list of one-character strings, as in ['H', 'E', 'L', 'L', 'O']
ListOfChars(chars) == PyList([i \in DOMAIN chars |-> PyStr(<<chars[i]>>)])

\* a == b: values of different types are never equal (a str is not a list)
PyEq(a, b) == a.type = b.type /\ a.val = b.val

\* truth value of `if x:` for None and str
Truthy(x) == x.type # "NoneType" /\ Len(x.val) > 0

\* sequence[i:j] on a str (0-based, end-exclusive, clipped to the length)
StrSlice(s, i, j) ==
    LET hi == IF j > Len(s.val) THEN Len(s.val) ELSE j
    IN  PyStr(SubSeq(s.val, i + 1, hi))

\* ''.join(list of str)
RECURSIVE JoinChars(_)
JoinChars(buffer) ==
    IF buffer = << >> THEN << >> ELSE buffer[1].val \o JoinChars(Tail(buffer))

Join(buffer) == PyStr(JoinChars(buffer))

\* ------------------------------------------------------------------------
\* SignLanguageRecognizer (backend/ai_services/sign_recognition.py)
\* ------------------------------------------------------------------------
MaxFrames == 3               \* recognize calls over the whole run
FrameClasses == {4, 18, 24, 28}   \* classes the model is shown: E, S, Y, NOTHING
Confidences == {50, 70, 95}  \* np.max(predictions[0]) in percent

ConfidenceThreshold == 70    \* `confidence > 0.7`, in percent
max_sequence_length == 10

AlphabetLetters ==
    <<"A", "B", "C", "D", "E", "F", "G", "H", "I", "J", "K", "L", "M",
      "N", "O", "P", "Q", "R", "S", "T", "U", "V", "W", "X", "Y", "Z">>

NOTHING == PyStr(<<"N", "O", "T", "H", "I", "N", "G">>)

asl_alphabet ==
    [k \in 0..28 |->
        IF k <= 25 THEN PyStr(<<AlphabetLetters[k + 1]>>)
        ELSE IF k = 26 THEN PyStr(<<"S", "P", "A", "C", "E">>)
        ELSE IF k = 27 THEN PyStr(<<"D", "E", "L", "E", "T", "E">>)
        ELSE NOTHING]

\* self.asl_alphabet.get(predicted_class, 'UNKNOWN')
AslLabel(predicted_class) ==
    IF predicted_class \in DOMAIN asl_alphabet
    THEN asl_alphabet[predicted_class]
    ELSE PyStr(<<"U", "N", "K", "N", "O", "W", "N">>)

HELLO == <<"H", "E", "L", "L", "O">>
THANK_YOU == <<"T", "H", "A", "N", "K", " ", "Y", "O", "U">>
YES == <<"Y", "E", "S">>
NO == <<"N", "O">>
PLEASE == <<"P", "L", "E", "A", "S", "E">>
SORRY == <<"S", "O", "R", "R", "Y">>
GOOD == <<"G", "O", "O", "D">>
BAD == <<"B", "A", "D">>
HELP == <<"H", "E", "L", "P">>
WATER == <<"W", "A", "T", "E", "R">>
FOOD == <<"F", "O", "O", "D">>
HOME == <<"H", "O", "M", "E">>

\* self.common_phrases, in the dict's insertion order
common_phrases ==
    [k \in 1..12 |->
        LET w == <<HELLO, THANK_YOU, YES, NO, PLEASE, SORRY,
                   GOOD, BAD, HELP, WATER, FOOD, HOME>>[k]
        IN  [phrase |-> PyStr(w), pattern |-> ListOfChars(w)]]

\* the `signs` list of simulate_prediction; random.choice returns one of them
SimulatedSigns ==
    {PyStr(w) : w \in {HELLO, THANK_YOU, YES, NO, PLEASE, SORRY, GOOD, BAD, HELP}}

\* what self.model.predict can do on a frame
ModelOutcomes ==
    [kind : {"prediction"}, class : FrameClasses, confidence : Confidences]
    \cup {[kind |-> "raise", class |-> 0, confidence |-> 0],
          [kind |-> "preprocess_none", class |-> 0, confidence |-> 0]}

\* mutation: no simulated fallback when the model is not ready
predict_sign_NoSimulation(ready, outcome, choice) ==
    IF ~ready \/ outcome.kind # "prediction" \/ outcome.confidence <= ConfidenceThreshold
    THEN [sign |-> None, tier |-> "none"]
    ELSE [sign |-> AslLabel(outcome.class), tier |-> "model"]

\* predict_sign: the value returned and the tier that produced it
predict_sign(ready, outcome, choice) ==
    IF ~ready
    THEN [sign |-> choice, tier |-> "simulated"]
    ELSE IF outcome.kind = "preprocess_none"
    THEN [sign |-> None, tier |-> "none"]
    ELSE IF outcome.kind = "raise"
    THEN [sign |-> choice, tier |-> "simulated"]
    ELSE IF outcome.confidence > ConfidenceThreshold
    THEN [sign |-> AslLabel(outcome.class), tier |-> "model"]
    ELSE [sign |-> None, tier |-> "none"]

\* mutations: the trimming of update_sequence_buffer
update_sequence_buffer_NoTrim(buffer, sign) == Append(buffer, sign)

update_sequence_buffer_OffByOne(buffer, sign) ==
    LET b == Append(buffer, sign)
    IN  IF Len(b) > max_sequence_length
        THEN SubSeq(b, Len(b) - max_sequence_length + 2, Len(b))
        ELSE b

\* update_sequence_buffer: append, then keep only the last max_sequence_length
update_sequence_buffer(buffer, sign) ==
    LET b == Append(buffer, sign)
    IN  IF Len(b) > max_sequence_length
        THEN SubSeq(b, Len(b) - max_sequence_length + 1, Len(b))
        ELSE b

sequence_matches_pattern(sequence, pattern) ==
    IF Len(sequence.val) < Len(pattern.val)
    THEN FALSE
    ELSE \E i \in 0..(Len(sequence.val) - Len(pattern.val)) :
            PyEq(StrSlice(sequence, i, i + Len(pattern.val)), pattern)

\* the phrases whose pattern sequence_matches_pattern finds in the buffer
PhraseHits(buffer) ==
    {k \in DOMAIN common_phrases :
        sequence_matches_pattern(Join(buffer), common_phrases[k].pattern)}

\* mutations: recognize_phrase without its length test, and one that resets
\* the buffer on every search
recognize_phrase_NoMinLength(buffer) ==
    LET hits == PhraseHits(buffer)
    IN  IF hits = {}
        THEN [phrase |-> None, buffer |-> buffer, searched |-> TRUE]
        ELSE LET k == CHOOSE h \in hits : \A g \in hits : h <= g
             IN  [phrase |-> common_phrases[k].phrase, buffer |-> << >>,
                  searched |-> TRUE]

recognize_phrase_AlwaysClears(buffer) ==
    IF Len(buffer) < 3
    THEN [phrase |-> None, buffer |-> buffer, searched |-> FALSE]
    ELSE LET hits == PhraseHits(buffer)
         IN  IF hits = {}
             THEN [phrase |-> None, buffer |-> << >>, searched |-> TRUE]
             ELSE LET k == CHOOSE h \in hits : \A g \in hits : h <= g
                  IN  [phrase |-> common_phrases[k].phrase, buffer |-> << >>,
                       searched |-> TRUE]

\* recognize_phrase: the phrase returned (or None), the buffer it leaves and
\* whether the loop over common_phrases was entered
recognize_phrase(buffer) ==
    IF Len(buffer) < 3
    THEN [phrase |-> None, buffer |-> buffer, searched |-> FALSE]
    ELSE LET hits == PhraseHits(buffer)
         IN  IF hits = {}
             THEN [phrase |-> None, buffer |-> buffer, searched |-> TRUE]
             ELSE LET k == CHOOSE h \in hits : \A g \in hits : h <= g
                  IN  [phrase |-> common_phrases[k].phrase, buffer |-> << >>,
                       searched |-> TRUE]

\* mutation: the test of recognize without the sentinel
IsObservable_NoSentinel(sign) == Truthy(sign)

\* `if sign and sign != 'NOTHING':` the symbol is handed to the matcher
IsObservable(sign) == Truthy(sign) /\ ~PyEq(sign, NOTHING)

Sessions == 1..NumSessions

NoCall ==
    [called |-> FALSE, session |-> 0, hand |-> FALSE, tier |-> "none",
     raised |-> FALSE, low_confidence |-> FALSE, sign |-> None, result |-> None,
     own_result |-> None, appended |-> FALSE, searched |-> FALSE, before |-> << >>]

\* recognize(image, language) on the module's one sign_recognizer, called for
\* a frame of the given session: hand is whether extract_hand_features finds
\* landmarks (None also when it raises inside).  What the call does to the
\* recognizer.
RecognizeCall(session, hand, outcome, choice) ==
    /\ frames' = frames + 1
    /\ IF ~hand
       THEN /\ sequence_buffer' = sequence_buffer
            /\ sessions' = sessions
            /\ last' = [NoCall EXCEPT !.called = TRUE, !.session = session,
                                      !.before = sequence_buffer]
       ELSE LET p == predict_sign(is_model_ready, outcome, choice)
                low == /\ is_model_ready
                       /\ outcome.kind = "prediction"
                       /\ outcome.confidence < ConfidenceThreshold
                call == [NoCall EXCEPT !.called = TRUE, !.session = session,
                                       !.hand = TRUE, !.tier = p.tier,
                                       !.raised = is_model_ready /\ outcome.kind = "raise",
                                       !.low_confidence = low, !.sign = p.sign,
                                       !.before = sequence_buffer]
            IN  IF IsObservable(p.sign)
                THEN \E m \in {recognize_phrase(
                                   update_sequence_buffer(sequence_buffer, p.sign))},
                        own \in {recognize_phrase(
                                   update_sequence_buffer(sessions[session].buffer, p.sign))} :
                         /\ sequence_buffer' = m.buffer
                         /\ sessions' = [sessions EXCEPT ![session] =
                                [buffer |-> own.buffer, observed |-> @.observed + 1]]
                         /\ last' = [call EXCEPT
                                !.result = IF Truthy(m.phrase) THEN m.phrase ELSE p.sign,
                                !.own_result = IF Truthy(own.phrase) THEN own.phrase
                                               ELSE p.sign,
                                !.appended = TRUE,
                                !.searched = m.searched]
                ELSE /\ sequence_buffer' = sequence_buffer
                     /\ sessions' = sessions
                     /\ last' = call
    /\ UNCHANGED is_model_ready

\* a recognize call made on its own
RecognizeFrame(session, hand, outcome, choice) ==
    /\ RecognizeCall(session, hand, outcome, choice)
    /\ UNCHANGED otherThanSign

\* the frames of one signer, any frame the model can be shown
Recognize ==
    /\ frames < MaxFrames
    /\ \E hand \in BOOLEAN, outcome \in ModelOutcomes, choice \in SimulatedSigns :
          RecognizeFrame(1, hand, outcome, choice)

\* the recognizer before any frame is seen
SignIdle ==
    /\ sequence_buffer = << >>
    /\ frames = 0
    /\ last = NoCall
    /\ sessions = [s \in Sessions |-> [buffer |-> << >>, observed |-> 0]]

NextSign == Recognize

\* ------------------------------------------------------------------------
\* CaptionService (backend/ai_services/caption_service.py)
\* ------------------------------------------------------------------------
max_history == 100

\* create_caption: the caption dict; uuid4 and datetime.now() are fresh values
NewCaption(id, text, type, user_id, language) ==
    [id |-> id, text |-> text, type |-> type, user_id |-> user_id,
     user_name |-> "Unknown User", user_photo |-> "default photo",
     language |-> language, timestamp |-> id, confidence |-> 95,
     metadata |-> [processing_time |-> 5, model_version |-> "1.0.0"]]

\* mutations: add_to_history without the slice, keeping the oldest, and
\* appending the caption twice
add_to_history_NoTrim(history, caption) == Append(history, caption)

add_to_history_Twice(history, caption) ==
    LET h == Append(Append(history, caption), caption)
    IN  IF Len(h) > max_history
        THEN SubSeq(h, Len(h) - max_history + 1, Len(h))
        ELSE h

add_to_history_KeepsOldest(history, caption) ==
    LET h == Append(history, caption)
    IN  IF Len(h) > max_history THEN SubSeq(h, 1, max_history) ELSE h

\* mutation of the code: the caption is written over the last one of a
\* history that is not empty (the update of another caller is lost)
add_to_history_LostUpdate(history, caption) ==
    IF Len(history) = 0
    THEN <<caption>>
    ELSE [history EXCEPT ![Len(history)] = caption]

\* add_to_history: append, then keep only the last max_history captions
add_to_history(history, caption) ==
    LET h == Append(history, caption)
    IN  IF Len(h) > max_history
        THEN SubSeq(h, Len(h) - max_history + 1, Len(h))
        ELSE h

NoQuery == [called |-> FALSE, limit |-> 0, result |-> << >>]

NoTranslation ==
    [called |-> FALSE, target_language |-> "", before |-> None, after |-> None,
     result |-> None]

\* the service's ghosts before any call
CaptionIdle ==
    /\ inserted = 0
    /\ queried = NoQuery
    /\ translation = NoTranslation

\* ------------------------------------------------------------------------
\* VoiceRecognizer (backend/ai_services/voice_recognition.py) and
\* voice_to_text (backend/main.py)
\* ------------------------------------------------------------------------
MaxRequests == 2             \* voice_to_text calls over the whole run

Languages == {"en", "ta", "fr"}   \* request languages; "fr" has no entry in any table
UserIds == {"u1", "u2"}

\* a str holding a whole text; '' is the empty sequence
Text(s) == PyStr(<<s>>)

EmptyText == PyStr(<< >>)

\* the phrases table of simulate_transcription
phrases ==
    [l \in {"en", "ta", "ml", "te"} |->
        IF l = "en"
        THEN {Text("Hello everyone, how are you doing?"),
              Text("Thank you for joining the meeting"),
              Text("Can you hear me clearly?"),
              Text("Yes, I can hear you perfectly"),
              Text("Let's discuss the project updates"),
              Text("I agree with your proposal"),
              Text("That sounds like a great idea"),
              Text("Could you please repeat that?"),
              Text("I'm having trouble with my connection"),
              Text("The presentation looks good")}
        ELSE {Text(l \o " phrase 1"), Text(l \o " phrase 2"),
              Text(l \o " phrase 3"), Text(l \o " phrase 4")}]

\* phrases.get(language, phrases["en"])
language_phrases(language) ==
    IF language \in DOMAIN phrases THEN phrases[language] ELSE phrases["en"]

\* what the body of a backend that is ready can return: None (no result,
\* preprocessing failed), '' or a transcript
TierReturns ==
    {None, EmptyText, Text("Can you hear me clearly?"), Text("good morning")}

\* how the body of a backend that is ready ends: it raises (network error,
\* bad audio, a recognizer fault) or it returns one of TierReturns
TierOutcomes ==
    {[raises |-> TRUE, value |-> None]} \cup
    {[raises |-> FALSE, value |-> ret] : ret \in TierReturns}

\* a backend that is not available returns None before its try block
NotAvailable == [raises |-> FALSE, value |-> None]

\* mutation: a backend without its own except clause
TierCatchMissing(outcome) ==
    [raised |-> outcome.raises, value |-> outcome.value]

\* the try / except Exception of transcribe_with_google and
\* transcribe_with_vosk: an exception is logged and None is returned
TierCatch(outcome) ==
    [raised |-> FALSE, value |-> IF outcome.raises THEN None ELSE outcome.value]

\* mutations: the fallback tests of transcribe
FallbackNeededAlways(text) == TRUE

FallbackNeededNever(text) == FALSE

\* `if not text:` the next tier is tried
FallbackNeeded(text) == ~Truthy(text)

NoRequest ==
    [pc |-> "idle", language |-> "en", user_id |-> "u1", calls |-> << >>,
     text |-> None, tier |-> "none", hit |-> "none", excepted |-> "none"]

\* voice_to_text(audio_data, language, user_id): base64.b64decode raises on a
\* malformed payload and the call ends in HTTPException(500); otherwise
\* transcribe starts with the Google tier.
VoiceRequest(language, user_id, valid) ==
    /\ v.pc = "idle"
    /\ requests < MaxRequests
    /\ IF valid
       THEN /\ v' = [NoRequest EXCEPT !.pc = "google", !.language = language,
                                      !.user_id = user_id]
            /\ UNCHANGED <<requests, responses>>
       ELSE /\ v' = [NoRequest EXCEPT !.language = language, !.user_id = user_id]
            /\ requests' = requests + 1
            /\ responses' = Append(responses,
                  [raised |-> TRUE, tier |-> "none", value |-> None])
    /\ UNCHANGED <<google_ready, vosk_ready, caption_history, next_id>>
    /\ UNCHANGED otherThanVoice

\* text = await self.transcribe_with_google(audio_data, language)
GoogleTier ==
    /\ v.pc = "google"
    /\ \E outcome \in (IF google_ready THEN TierOutcomes ELSE {NotAvailable}) :
          LET r == TierCatch(outcome)
              ret == r.value
          IN  v' = [v EXCEPT !.calls = Append(@, "google"),
                             !.excepted = IF outcome.raises THEN "google" ELSE "none",
                             !.text = ret,
                             !.tier = IF ~r.raised /\ Truthy(ret) THEN "google" ELSE "none",
                             !.hit = IF @ = "none" /\ ~r.raised /\ Truthy(ret)
                                     THEN "google" ELSE @,
                             \* an exception that reaches transcribe ends in its
                             \* except clause: return self.simulate_transcription
                             !.pc = IF r.raised THEN "simulate"
                                    ELSE IF FallbackNeeded(ret) THEN "vosk" ELSE "return"]
    /\ UNCHANGED <<google_ready, vosk_ready, requests, caption_history, next_id, responses>>
    /\ UNCHANGED otherThanVoice

\* if not text: text = await self.transcribe_with_vosk(audio_data, language)
VoskTier ==
    /\ v.pc = "vosk"
    /\ \E outcome \in (IF vosk_ready THEN TierOutcomes ELSE {NotAvailable}) :
          LET r == TierCatch(outcome)
              ret == r.value
          IN  v' = [v EXCEPT !.calls = Append(@, "vosk"),
                             !.excepted = IF outcome.raises THEN "vosk" ELSE "none",
                             !.text = ret,
                             !.tier = IF ~r.raised /\ Truthy(ret) THEN "vosk" ELSE "none",
                             !.hit = IF @ = "none" /\ ~r.raised /\ Truthy(ret)
                                     THEN "vosk" ELSE @,
                             \* an exception that reaches transcribe ends in its
                             \* except clause: return self.simulate_transcription
                             !.pc = IF r.raised THEN "simulate"
                                    ELSE IF FallbackNeeded(ret) THEN "simulate" ELSE "return"]
    /\ UNCHANGED <<google_ready, vosk_ready, requests, caption_history, next_id, responses>>
    /\ UNCHANGED otherThanVoice

\* if not text: text = self.simulate_transcription(language)
SimulateTier ==
    /\ v.pc = "simulate"
    /\ \E choice \in language_phrases(v.language) :
          v' = [v EXCEPT !.calls = Append(@, "simulated"),
                         !.excepted = "none",
                         !.text = choice,
                         !.tier = "simulated",
                         !.hit = IF @ = "none" THEN "simulated" ELSE @,
                         !.pc = "return"]
    /\ UNCHANGED <<google_ready, vosk_ready, requests, caption_history, next_id, responses>>
    /\ UNCHANGED otherThanVoice

\* transcribe returns text; voice_to_text builds the caption and its result
VoiceReturn ==
    /\ v.pc = "return"
    /\ v' = [v EXCEPT !.pc = "idle"]
    /\ requests' = requests + 1
    /\ IF Truthy(v.text)
       THEN LET caption == NewCaption(next_id, v.text, "voice", v.user_id, v.language)
            IN  /\ caption_history' = add_to_history(caption_history, caption)
                /\ next_id' = next_id + 1
                /\ inserted' = inserted + 1
                /\ responses' = Append(responses,
                      [raised |-> FALSE, tier |-> v.tier,
                       value |-> [success |-> TRUE, text |-> v.text,
                                  caption |-> caption, language |-> v.language,
                                  message |-> ""]])
       ELSE /\ UNCHANGED <<caption_history, next_id, inserted>>
            /\ responses' = Append(responses,
                  [raised |-> FALSE, tier |-> v.tier,
                   value |-> [success |-> FALSE, text |-> EmptyText,
                              caption |-> None, language |-> "",
                              message |-> "No speech detected"]])
    /\ UNCHANGED <<google_ready, vosk_ready>>
    /\ UNCHANGED <<roomVars, signVars, queried, translation>>

\* the voice pipeline before any request
VoiceIdle ==
    /\ v = NoRequest
    /\ requests = 0
    /\ caption_history = << >>
    /\ next_id = 1
    /\ responses = << >>
    /\ CaptionIdle

\* initialize_google_speech / initialize_vosk succeed or not
InitVoice ==
    /\ InitRoom
    /\ SignIdle
    /\ is_model_ready = FALSE
    /\ VoiceIdle
    /\ google_ready \in BOOLEAN
    /\ vosk_ready \in BOOLEAN

NextVoice ==
    \/ \E language \in Languages, user_id \in UserIds, valid \in BOOLEAN :
          VoiceRequest(language, user_id, valid)
    \/ GoogleTier
    \/ VoskTier
    \/ SimulateTier
    \/ VoiceReturn

\* ------------------------------------------------------------------------
\* Properties of SignLanguageRecognizer.recognize
\* ------------------------------------------------------------------------
\* C5: when the symbols observed since the buffer was empty are exactly the
\* pattern of a dictionary phrase of length >= 3, the observation completing
\* it returns the phrase name and leaves the buffer empty.
C5_PhraseEmittedAndBufferCleared ==
    \A k \in DOMAIN common_phrases :
        LET pattern == common_phrases[k].pattern.val
        IN  ( /\ last.called
              /\ Truthy(last.sign)
              /\ Len(pattern) >= 3
              /\ Append(last.before, last.sign) = pattern )
            => /\ PyEq(last.result, common_phrases[k].phrase)
               /\ sequence_buffer = << >>

\* C8 as stated: with the model unavailable (only simulate_prediction serves),
\* recognize returns a label for every frame.
C8_LabelForEveryFrame ==
    (last.called /\ ~is_model_ready) => Truthy(last.result)

\* C8 amended: with the model unavailable, recognize returns a label, served by
\* the simulated tier, for every frame in which extract_hand_features finds a
\* hand; a frame without a hand returns None and leaves the buffer as it was.
C8_LabelForEveryFrameWithHand ==
    (last.called /\ ~is_model_ready) =>
        IF last.hand
        THEN Truthy(last.result) /\ last.tier = "simulated"
        ELSE PyEq(last.result, None) /\ sequence_buffer = last.before

C8_Witness ==
    /\ last.called /\ ~is_model_ready /\ last.hand
    /\ Truthy(last.result)
    /\ frames >= 2

\* C9: a model prediction with confidence below the threshold makes the chain
\* go on to the simulated tier, so recognize still returns a label.
C9_LowConfidenceFallsThrough ==
    (last.called /\ last.hand /\ last.low_confidence) =>
        Truthy(last.result) /\ last.tier = "simulated"

\* C14: when the buffer holds fewer than 3 symbols after the append, the
\* phrases are not searched and recognize returns the symbol itself, so no
\* phrase is returned for the first or second symbol after an empty buffer.
C14_NoSearchBelowThreeSymbols ==
    (last.appended /\ Len(last.before) + 1 < 3) =>
        /\ ~last.searched
        /\ last.result = last.sign
        /\ sequence_buffer = Append(last.before, last.sign)

\* the second symbol after an empty buffer has been returned as it is
C14_Witness ==
    /\ last.appended
    /\ Len(last.before) = 1
    /\ Len(sequence_buffer) = 2
    /\ last.result = last.sign

\* the last n elements of a list: lst[-n:] for n > 0
KeepLast(lst, n) ==
    IF Len(lst) > n THEN SubSeq(lst, Len(lst) - n + 1, Len(lst)) ELSE lst

\* the symbols of some phrase pattern stand next to each other in the buffer
PatternOccurs(buffer) ==
    \E k \in DOMAIN common_phrases :
        LET pattern == common_phrases[k].pattern.val
        IN  \E i \in 1..(Len(buffer) - Len(pattern) + 1) :
               \A j \in DOMAIN pattern : buffer[i + j - 1] = pattern[j]

\* C15: when no phrase pattern occurs in the buffer after the append,
\* recognize returns the symbol just observed and the buffer is the previous
\* buffer followed by that symbol, cut to its last 10; nothing is cleared.
C15_NoMatchKeepsBuffer ==
    LET expected == KeepLast(Append(last.before, last.sign), max_sequence_length)
    IN  (last.appended /\ ~PatternOccurs(expected)) =>
            /\ last.result = last.sign
            /\ sequence_buffer = expected

\* a symbol was appended to a full buffer and no pattern occurs in the result
C15_Witness ==
    /\ last.appended
    /\ Len(last.before) = max_sequence_length
    /\ ~PatternOccurs(sequence_buffer)
    /\ last.result = last.sign

\* C16: when the predicted symbol is the NOTHING sentinel, recognize returns
\* None and the buffer is exactly what it was before the call.
C16_SentinelLeavesBufferAlone ==
    (last.called /\ last.hand /\ PyEq(last.sign, NOTHING)) =>
        /\ last.result = None
        /\ ~last.appended
        /\ sequence_buffer = last.before

\* NOTHING was predicted while the buffer held symbols
C16_Witness ==
    /\ last.called
    /\ PyEq(last.sign, NOTHING)
    /\ last.result = None
    /\ Len(last.before) >= 1
    /\ sequence_buffer = last.before

\* ------------------------------------------------------------------------
\* Properties of VoiceRecognizer.transcribe and voice_to_text
\* ------------------------------------------------------------------------
TierOrder == <<"google", "vosk", "simulated">>

IsPrefix(s, t) == Len(s) <= Len(t) /\ \A i \in DOMAIN s : s[i] = t[i]

\* C6: the tiers are invoked in the order Google, Vosk, simulated, and once a
\* tier has returned a non-empty text no later tier is invoked for the request.
C6_FixedOrderShortCircuit ==
    /\ IsPrefix(v.calls, TierOrder)
    /\ v.hit # "none" => v.calls[Len(v.calls)] = v.hit
    /\ v.pc = "return" => v.hit = v.tier

C6_Witness ==
    /\ v.pc = "idle" /\ requests >= 1
    /\ v.hit = "vosk"
    /\ v.calls = <<"google", "vosk">>

Visible(value) ==
    [value EXCEPT !.caption = [@ EXCEPT !.id = 0, !.timestamp = 0]]

\* C10: two results with the same text for the same user and language, one
\* served by Google or Vosk and one by simulate_transcription, differ in a
\* field other than id and timestamp.
C10_PlaceholderDistinguishable ==
    \A i, j \in DOMAIN responses :
        ( /\ ~responses[i].raised /\ ~responses[j].raised
          /\ responses[i].tier \in {"google", "vosk"}
          /\ responses[j].tier = "simulated"
          /\ PyEq(responses[i].value.text, responses[j].value.text)
          /\ responses[i].value.language = responses[j].value.language
          /\ responses[i].value.caption.user_id = responses[j].value.caption.user_id )
        => Visible(responses[i].value) # Visible(responses[j].value)

\* ------------------------------------------------------------------------
\* Specifications
\* ------------------------------------------------------------------------
vars == <<roomVars, signVars, voiceVars, captionVars>>

\* the connection manager and the WebSocket handlers
Init ==
    /\ InitRoom
    /\ SignIdle /\ is_model_ready = FALSE
    /\ VoiceIdle /\ google_ready = FALSE /\ vosk_ready = FALSE

Next == NextRoom

Spec == Init /\ [][Next]_vars

\* load_model: asl_model.h5 is found and loads, or the model is None
InitSign ==
    /\ InitRoom
    /\ VoiceIdle /\ google_ready = FALSE /\ vosk_ready = FALSE
    /\ SignIdle
    /\ is_model_ready \in BOOLEAN

\* the sign recognizer fed with frames
SpecSign == InitSign /\ [][NextSign]_vars

\* voice_to_text requests through the transcription chain
SpecVoice == InitVoice /\ [][NextVoice]_vars

\* ------------------------------------------------------------------------
\* Exceptions inside the tiers of both chains
\* ------------------------------------------------------------------------
MaxChainCalls == 1           \* calls made to the chain a run exercises

\* either recognizer may or may not have its backends loaded
InitChains ==
    /\ InitRoom
    /\ SignIdle
    /\ is_model_ready \in BOOLEAN
    /\ VoiceIdle
    /\ google_ready \in BOOLEAN
    /\ vosk_ready \in BOOLEAN

\* a run exercises the voice chain or the sign chain
VoiceChain ==
    /\ frames = 0
    /\ requests < MaxChainCalls
    /\ NextVoice

SignChain ==
    /\ requests = 0
    /\ v.pc = "idle"
    /\ frames < MaxChainCalls
    /\ NextSign

NextChains == VoiceChain \/ SignChain

SpecChains == InitChains /\ [][NextChains]_vars

MaxObservations == 12        \* frames of the stream
StreamClasses == {13, 14, 28}   \* classes the stream shows: N, O, NOTHING

\* the model is loaded and nothing has been recognized yet
InitBuffer ==
    /\ InitRoom
    /\ VoiceIdle
    /\ google_ready = FALSE
    /\ vosk_ready = FALSE
    /\ SignIdle
    /\ is_model_ready = TRUE

\* one more frame of a signer whose hand is in view and whose sign the
\* model predicts with confidence
StreamFrame ==
    /\ frames < MaxObservations
    /\ \E class \in StreamClasses :
          RecognizeFrame(1, TRUE,
                         [kind |-> "prediction", class |-> class, confidence |-> 95],
                         PyStr(YES))

NextBuffer == StreamFrame

SpecBuffer == InitBuffer /\ [][NextBuffer]_vars

\* C12: the sequence buffer never holds more than max_sequence_length (10)
\* symbols, and a symbol appended to a full buffer evicts the oldest one.
C12_BufferBounded ==
    /\ Len(sequence_buffer) <= max_sequence_length
    /\ (last.appended /\ Len(last.before) = max_sequence_length) =>
          sequence_buffer = Append(Tail(last.before), last.sign)

\* an eleventh symbol or later has been appended to a full buffer
C12_Witness ==
    /\ last.appended
    /\ Len(last.before) = max_sequence_length
    /\ sessions[1].observed > max_sequence_length
    /\ Len(sequence_buffer) = max_sequence_length

\* symbols handed to update_sequence_buffer so far, over all signers
RECURSIVE SumObserved(_)
SumObserved(S) ==
    IF S = {} THEN 0
    ELSE LET s == CHOOSE x \in S : TRUE
         IN  sessions[s].observed + SumObserved(S \ {s})

Observed == SumObserved(Sessions)

MaxSessionFrames == 4        \* frames sent by all signers together

\* image_data from the connection of signer s (or its POST /api/sign-to-text)
\* reaches sign_recognizer.recognize
SessionFrame(s) ==
    /\ frames < MaxSessionFrames
    /\ \E class \in StreamClasses :
          RecognizeFrame(s, TRUE,
                         [kind |-> "prediction", class |-> class, confidence |-> 95],
                         PyStr(YES))

NextSessions == \E s \in Sessions : SessionFrame(s)

SpecSessions == InitBuffer /\ [][NextSessions]_vars

\* C17: every sign session has a symbol buffer of its own: after a symbol of a
\* session is observed, the buffer it was matched in holds only symbols of
\* that session, and the value returned is the one a recognizer used by that
\* session alone would return.
C17_SessionOwnsItsBuffer ==
    last.appended =>
        /\ sequence_buffer = sessions[last.session].buffer
        /\ last.result = last.own_result

\* ------------------------------------------------------------------------
\* The caption store (CaptionService) under its own operations
\* ------------------------------------------------------------------------
MaxCaptions == 102           \* captions created over the whole run
QueryLimits == {0, 1, 50}    \* limit arguments of get_caption_history (50 is the default)

\* create_caption(text, type, user_id, language), add_to_history included
CreateCaption(text, type, user_id, language) ==
    /\ caption_history' =
          add_to_history(caption_history,
                         NewCaption(next_id, text, type, user_id, language))
    /\ next_id' = next_id + 1
    /\ inserted' = inserted + 1
    /\ queried' = NoQuery
    /\ translation' = NoTranslation
    /\ UNCHANGED otherThanCaption

\* get_caption_history(limit): caption_history[-limit:] if limit else the list
get_caption_history(history, limit) ==
    IF limit # 0 THEN KeepLast(history, limit) ELSE history

GetCaptionHistory(limit) ==
    /\ queried' = [called |-> TRUE, limit |-> limit,
                   result |-> get_caption_history(caption_history, limit)]
    /\ translation' = NoTranslation
    /\ UNCHANGED <<caption_history, next_id, inserted>>
    /\ UNCHANGED otherThanCaption

\* clear_history()
ClearHistory ==
    /\ caption_history' = << >>
    /\ inserted' = 0
    /\ queried' = NoQuery
    /\ translation' = NoTranslation
    /\ UNCHANGED next_id
    /\ UNCHANGED otherThanCaption

\* cleanup()
Cleanup ==
    /\ caption_history' = << >>
    /\ inserted' = 0
    /\ queried' = NoQuery
    /\ translation' = NoTranslation
    /\ UNCHANGED next_id
    /\ UNCHANGED otherThanCaption

\* one more sign caption of the same signer
StoreCreate ==
    /\ next_id <= MaxCaptions
    /\ CreateCaption(PyStr(YES), "sign", "u1", "en")

NextStore ==
    \/ StoreCreate
    \/ \E limit \in QueryLimits : GetCaptionHistory(limit)
    \/ ClearHistory
    \/ Cleanup

SpecStore == Init /\ [][NextStore]_vars

\* C18: the caption history never holds more than max_history (100) captions,
\* whatever sequence of create_caption (with its add_to_history),
\* get_caption_history, clear_history and cleanup has run.
C18_HistoryBounded == Len(caption_history) <= max_history

\* more than 100 captions were added to a history that was not emptied
C18_Witness ==
    /\ inserted > max_history
    /\ Len(caption_history) = max_history

\* C19: after more than max_history captions were inserted, the history holds
\* exactly the max_history most recently inserted ones, in insertion order
\* (ids are handed out in insertion order; the oldest are the ones dropped).
C19_MostRecentKept ==
    inserted > max_history =>
        /\ Len(caption_history) = max_history
        /\ \A i \in 1..max_history :
              caption_history[i].id = next_id - max_history + i - 1

\* two captions more than the bound were inserted: the first two are gone
C19_Witness ==
    /\ inserted = max_history + 2
    /\ Len(caption_history) = max_history
    /\ caption_history[1].id = next_id - max_history
    /\ caption_history[max_history].id = next_id - 1

\* ------------------------------------------------------------------------
\* translate_caption on the captions of the store
\* ------------------------------------------------------------------------
MaxTranslateIds == 3         \* uuid4 ids drawn by create_caption and translate_caption
CaptionTexts == {Text("Yes"), Text("Good day"), EmptyText}
TargetLanguages == {"ta", "te", "fr"}   \* "fr" is not in the translations table

\* the entry of "Yes" in translations["en"][target_language] (the Tamil and
\* Telugu words, transliterated); the table's other keys are not among
\* CaptionTexts
translations ==
    [ta |-> [text |-> Text("Yes"), translated |-> Text("aam")],
     te |-> [text |-> Text("Yes"), translated |-> Text("avunu")]]

\* simulate_translation(text, target_language): the table's entry, else the
\* text itself
simulate_translation(text, target_language) ==
    IF target_language \in DOMAIN translations
    THEN IF translations[target_language].text = text
         THEN translations[target_language].translated
         ELSE text
    ELSE text

\* translate_caption(caption, target_language): the value returned and the
\* caption passed as it reads after the call. caption.copy() copies the
\* top-level keys only, so translated_caption["metadata"] is the very dict of
\* the original and the two assignments into it show in both.
translate_caption(caption, target_language, fresh) ==
    LET translated_text == simulate_translation(caption.text, target_language)
        metadata == [translated |-> TRUE, original_language |-> caption.language]
                    @@ caption.metadata
    IN  IF Truthy(translated_text)
        THEN [result |-> [caption EXCEPT !.id = fresh,
                                         !.text = translated_text,
                                         !.language = target_language,
                                         !.timestamp = fresh,
                                         !.metadata = metadata],
              original |-> [caption EXCEPT !.metadata = metadata]]
        ELSE [result |-> None, original |-> caption]

\* a caller translates the i-th caption of the history (the dict the history
\* holds is the one create_caption returned)
TranslateCaption(i, target_language) ==
    LET t == translate_caption(caption_history[i], target_language, next_id)
    IN  /\ translation' = [called |-> TRUE, target_language |-> target_language,
                           before |-> caption_history[i], after |-> t.original,
                           result |-> t.result]
        /\ caption_history' = [caption_history EXCEPT ![i] = t.original]
        /\ next_id' = IF t.result = None THEN next_id ELSE next_id + 1
        /\ queried' = NoQuery
        /\ UNCHANGED inserted
        /\ UNCHANGED otherThanCaption

TranslateCreate ==
    /\ next_id <= MaxTranslateIds
    /\ \E text \in CaptionTexts, language \in {"en", "ta"} :
          CreateCaption(text, "sign", "u1", language)

TranslateStep ==
    /\ next_id <= MaxTranslateIds
    /\ \E i \in DOMAIN caption_history, target_language \in TargetLanguages :
          TranslateCaption(i, target_language)

NextTranslate == TranslateCreate \/ TranslateStep

SpecTranslate == Init /\ [][NextTranslate]_vars

\* C20: translate_caption returns a new caption with a new id and leaves
\* every field of the caption it was given, the contents of its metadata
\* included, as it was before the call.
C20_TranslateLeavesOriginal ==
    translation.called =>
        /\ translation.after = translation.before
        /\ translation.result # None => translation.result.id # translation.before.id

\* ------------------------------------------------------------------------
\* The two pipelines of main.py side by side: voice_to_text and sign_to_text
\* ------------------------------------------------------------------------
\* what base64.b64decode and cv2.imdecode make of image_data: an image, None
\* (bytes that are no image), or an exception (incorrect padding, a value
\* that is no str, an empty buffer)
ImageDecodes == {"image", "none", "raise"}

\* sign_to_text(image_data, language, user_id).  recognize has no await of
\* its own, so the call runs from start to end without another task.
SignToText(language, user_id, decoded, hand, outcome, choice) ==
    /\ v.pc = "idle"
    /\ requests < MaxRequests
    /\ requests' = requests + 1
    /\ IF decoded = "raise"
       THEN /\ responses' = Append(responses,
                  [raised |-> TRUE, tier |-> "none", value |-> None])
            /\ UNCHANGED <<signVars, caption_history, next_id, inserted>>
       ELSE /\ RecognizeCall(1, hand /\ decoded = "image", outcome, choice)
            /\ IF Truthy(last'.result)
               THEN LET caption == NewCaption(next_id, last'.result, "sign",
                                              user_id, language)
                    IN  /\ caption_history' = add_to_history(caption_history, caption)
                        /\ next_id' = next_id + 1
                        /\ inserted' = inserted + 1
                        /\ responses' = Append(responses,
                              [raised |-> FALSE, tier |-> last'.tier,
                               value |-> [success |-> TRUE, text |-> last'.result,
                                          caption |-> caption, language |-> language,
                                          message |-> ""]])
               ELSE /\ UNCHANGED <<caption_history, next_id, inserted>>
                    /\ responses' = Append(responses,
                          [raised |-> FALSE, tier |-> last'.tier,
                           value |-> [success |-> FALSE, text |-> EmptyText,
                                      caption |-> None, language |-> "",
                                      message |-> "No sign detected"]])
    /\ UNCHANGED <<google_ready, vosk_ready, v>>
    /\ UNCHANGED <<roomVars, queried, translation>>

\* the services as main.py creates them, each with or without its model
InitPipeline ==
    /\ InitRoom
    /\ SignIdle
    /\ is_model_ready \in BOOLEAN
    /\ VoiceIdle
    /\ google_ready \in BOOLEAN
    /\ vosk_ready = FALSE

PipelineVoiceRequest == \E valid \in BOOLEAN : VoiceRequest("en", "u1", valid)

PipelineSignToText ==
    \E decoded \in ImageDecodes, hand \in BOOLEAN, class \in StreamClasses :
        SignToText("en", "u2", decoded, hand,
                   [kind |-> "prediction", class |-> class, confidence |-> 95],
                   PyStr(YES))

NextPipeline ==
    \/ PipelineVoiceRequest
    \/ GoogleTier
    \/ VoskTier
    \/ SimulateTier
    \/ VoiceReturn
    \/ PipelineSignToText

SpecPipeline == InitPipeline /\ [][NextPipeline]_vars

\* the calls so far that returned a result with success = True
Successes == {i \in DOMAIN responses : ~responses[i].raised /\ responses[i].value.success}

\* C21: every call whose recognition returned a text has appended exactly
\* one caption, the one in its result, and a call whose decode failed or
\* whose recognition returned nothing has appended none.
C21_OneCaptionPerSuccess ==
    /\ Len(caption_history) = Cardinality(Successes)
    /\ \A i \in Successes :
          Count(caption_history, responses[i].value.caption) = 1
    /\ \A i \in DOMAIN responses \ Successes :
          responses[i].raised \/ responses[i].value.caption = None

\* a decode failure, a frame without a sign and a recognized sign, in one run
C21_Witness ==
    /\ Len(caption_history) = 1
    /\ Len(responses) = 2
    /\ \E i, j \in DOMAIN responses :
          /\ ~responses[i].raised
          /\ ~responses[i].value.success
          /\ j \in Successes
          /\ responses[j].value.caption.type = "sign"

\* C24: no call of voice_to_text or sign_to_text ends by raising: each returns
\* a result that carries a caption or a result with success = False.
C24_PipelineNeverRaises ==
    \A i \in DOMAIN responses :
        /\ ~responses[i].raised
        /\ responses[i].value.success => responses[i].value.caption # None

\* ------------------------------------------------------------------------
\* websocket_endpoint with its pipelines: what an inbound message leads to
\* ------------------------------------------------------------------------
MaxEventMsgs == 1            \* inbound audio_data / image_data messages of a run

\* the text a client sends: JSON whose data field is base64 of real media;
\* a data field with characters outside the base64 alphabet; a data field of
\* base64 characters with incorrect padding; text that is no JSON object with
\* type and data
Payloads == {"media", "non_alphabet", "bad_padding", "not_json"}

Malformed(payload) == payload # "media"

\* json.loads(data), message["type"], message["data"]
JsonRaises(payload) == payload = "not_json"

\* base64.b64decode(data): characters outside the alphabet are discarded
\* (validate=False), so only the padding can make it raise; what is left of
\* such a string is no media
b64decode(payload) ==
    [raises |-> payload = "bad_padding",
     bytes |-> IF payload = "media" THEN "media" ELSE "garbage"]

\* np.frombuffer / cv2.imdecode on the decoded bytes: the image, None for
\* bytes that are no image, an exception for an empty buffer
imdecode(bytes) == IF bytes = "media" THEN {"image"} ELSE {"none", "raise"}

\* transcribe(audio_bytes, language) as one call: the text returned and the
\* tier it comes from
transcribe(google_outcome, vosk_outcome, choice) ==
    LET google == TierCatch(google_outcome)
        vosk == TierCatch(vosk_outcome)
        simulated == [text |-> choice, tier |-> "simulated"]
    IN  IF google.raised THEN simulated
        ELSE IF ~FallbackNeeded(google.value)
        THEN [text |-> google.value, tier |-> "google"]
        ELSE IF vosk.raised THEN simulated
        ELSE IF ~FallbackNeeded(vosk.value)
        THEN [text |-> vosk.value, tier |-> "vosk"]
        ELSE simulated

\* the result dict of voice_to_text / sign_to_text for a recognized text
\* (None or ''  gives the no-caption result)
PipelineResult(text, type, user_id, language, id) ==
    IF Truthy(text)
    THEN [success |-> TRUE, text |-> text,
          caption |-> NewCaption(id, text, type, user_id, language),
          language |-> language, message |-> ""]
    ELSE [success |-> FALSE, text |-> EmptyText, caption |-> None, language |-> "",
          message |-> IF type = "voice" THEN "No speech detected"
                      ELSE "No sign detected"]

\* what the caption service keeps of a result
StoreResult(result) ==
    IF result.success
    THEN /\ caption_history' = add_to_history(caption_history, result.caption)
         /\ next_id' = next_id + 1
         /\ inserted' = inserted + 1
    ELSE UNCHANGED <<caption_history, next_id, inserted>>

\* an audio_data message on connection c: voice_to_text, then broadcast_to_room;
\* an exception on the way ends the handler in its except branch
AudioEvent(c, payload, google_outcome, vosk_outcome, choice) ==
    /\ next_msg <= MaxEventMsgs
    /\ next_msg' = next_msg + 1
    /\ requests' = requests + 1
    /\ IF JsonRaises(payload) \/ b64decode(payload).raises
       THEN /\ EndByException(c)
            /\ responses' = Append(responses,
                  [raised |-> TRUE, tier |-> "none", value |-> None,
                   kind |-> "audio_data", payload |-> payload, sender |-> c])
            /\ UNCHANGED <<caption_history, next_id, inserted>>
       ELSE LET t == transcribe(google_outcome, vosk_outcome, choice)
                result == PipelineResult(t.text, "voice", "u1", "ta", next_id)
            IN  /\ StoreResult(result)
                /\ responses' = Append(responses,
                      [raised |-> FALSE, tier |-> t.tier, value |-> result,
                       kind |-> "audio_data", payload |-> payload, sender |-> c])
                /\ StartBroadcast(c)
    /\ UNCHANGED <<signVars, google_ready, vosk_ready, v, queried, translation>>

\* an image_data message on connection c: sign_to_text, then broadcast_to_room
ImageEvent(c, payload, decoded, hand, outcome, choice) ==
    /\ next_msg <= MaxEventMsgs
    /\ next_msg' = next_msg + 1
    /\ requests' = requests + 1
    /\ IF JsonRaises(payload) \/ b64decode(payload).raises \/ decoded = "raise"
       THEN /\ EndByException(c)
            /\ responses' = Append(responses,
                  [raised |-> TRUE, tier |-> "none", value |-> None,
                   kind |-> "image_data", payload |-> payload, sender |-> c])
            /\ UNCHANGED <<signVars, caption_history, next_id, inserted>>
       ELSE /\ RecognizeCall(1, hand /\ decoded = "image", outcome, choice)
            /\ \E result \in {PipelineResult(last'.result, "sign", "u2", "en", next_id)} :
                  /\ StoreResult(result)
                  /\ responses' = Append(responses,
                        [raised |-> FALSE, tier |-> last'.tier, value |-> result,
                         kind |-> "image_data", payload |-> payload, sender |-> c])
            /\ StartBroadcast(c)
    /\ UNCHANGED <<google_ready, vosk_ready, v, queried, translation>>

EventConnect == \E c \in Conns, r \in Rooms : Connect(c, r)

EventAudio ==
    \E c \in Conns, payload \in Payloads,
       google_outcome \in (IF google_ready THEN TierOutcomes ELSE {NotAvailable}),
       choice \in language_phrases("ta") :
        AudioEvent(c, payload, google_outcome, NotAvailable, choice)

EventImage ==
    \E c \in Conns, payload \in Payloads, hand \in BOOLEAN, class \in StreamClasses :
       \E decoded \in imdecode(b64decode(payload).bytes) :
          ImageEvent(c, payload, decoded, hand,
                     [kind |-> "prediction", class |-> class, confidence |-> 95],
                     PyStr(YES))

NextEvents ==
    \/ EventConnect
    \/ EventAudio
    \/ EventImage
    \/ \E s \in Conns : SendComplete(s)
    \/ \E s \in Conns : BroadcastReturn(s)

SpecEvents == InitPipeline /\ [][NextEvents]_vars

\* the connections that were sent caption message k
ReceiversOf(k) == {p \in Conns : Contains(inbox[p], k)}

\* C22: when the recognition of an inbound event returns nothing (no sign, no
\* speech), the event is aborted: no message of that event reaches the room.
C22_AbsentIsNotBroadcast ==
    \A k \in DOMAIN responses :
        (~responses[k].raised /\ ~responses[k].value.success) => ReceiversOf(k) = {}

\* C23: when the payload of an inbound event is malformed, no caption is
\* stored for it and no message of it is sent to a peer of the room other
\* than the connection it came from.
C23_MalformedIsAborted ==
    \A k \in DOMAIN responses :
        Malformed(responses[k].payload) =>
            /\ responses[k].raised \/ ~responses[k].value.success
            /\ ReceiversOf(k) \subseteq {responses[k].sender}

\* ------------------------------------------------------------------------
\* The ConnectionManager's methods called one after the other (each call runs
\* to its return before the next one starts), with any arguments
\* ------------------------------------------------------------------------
MaxManagerCalls == 4         \* calls of a run; next_msg numbers them, and a
                             \* broadcast message carries its call's number

\* the peers and room ids the calls are made with
ManagerPeers == {c \in Conns : c <= 2}
ManagerRooms == {r \in Rooms : r <= 2}

\* what `await websocket.accept()` does: connect has no try, so an exception
\* of accept ends connect before the first append
AcceptOutcomes == {"returns", "raises"}

\* ConnectionManager.connect(websocket, room_id)
ManagerConnect(c, r, accepted) ==
    /\ next_msg <= MaxManagerCalls
    /\ next_msg' = next_msg + 1
    /\ IF accepted = "raises"
       THEN UNCHANGED <<active_connections, room_connections>>
       ELSE /\ active_connections' = Append(active_connections, c)
            /\ room_connections' = JoinRoom(room_connections, c, r)
    /\ UNCHANGED <<pc, room_of, broken, inbox, bc>>
    /\ UNCHANGED otherThanRoom

\* ConnectionManager.disconnect(websocket, room_id)
ManagerDisconnect(c, r) ==
    /\ next_msg <= MaxManagerCalls
    /\ next_msg' = next_msg + 1
    /\ active_connections' = DisconnectActive(c)
    /\ room_connections' = DisconnectRooms(c, r)
    /\ UNCHANGED <<pc, room_of, broken, inbox, bc>>
    /\ UNCHANGED otherThanRoom

\* a peer's transport breaks: later sends to it raise
ManagerBreak(c) ==
    /\ ~broken[c]
    /\ broken' = [broken EXCEPT ![c] = TRUE]
    /\ UNCHANGED <<active_connections, room_connections, pc, room_of, inbox, next_msg, bc>>
    /\ UNCHANGED otherThanRoom

\* mutation of the code: the lookup is made without the membership test
HasRoom_Unchecked(rooms, room_id) == TRUE

\* `if room_id in self.room_connections`
HasRoom(rooms, room_id) == room_id \in DOMAIN rooms

\* The for loop of broadcast_to_room run from state b to the end of the call:
\* a send to a connection that is not broken appends to sent, a send that
\* raises removes the connection from the list.
RECURSIVE RunBroadcast(_, _, _, _)
RunBroadcast(b, lst, exclude_websocket, sent) ==
    IF b.status = "returned"
    THEN [b |-> b, lst |-> lst, sent |-> sent]
    ELSE IF ~broken[b.cur]
         THEN RunBroadcast(BroadcastAdvance(b, lst, exclude_websocket), lst,
                           exclude_websocket, Append(sent, b.cur))
         ELSE LET rest == RemoveBroken(lst, b.cur)
              IN  RunBroadcast(
                      BroadcastAdvance([b EXCEPT !.failed = @ \cup {b.cur}],
                                       rest, exclude_websocket),
                      rest, exclude_websocket, sent)

\* ConnectionManager.broadcast_to_room(message, room_id, exclude_websocket),
\* called by `by`; the call's record is kept in bc[by].
ManagerBroadcast(by, r, exclude_websocket) ==
    /\ next_msg <= MaxManagerCalls
    /\ next_msg' = next_msg + 1
    /\ IF ~HasRoom(room_connections, r)
       THEN /\ bc' = [bc EXCEPT ![by] =
                        [NoBroadcast EXCEPT !.room = r, !.msg = next_msg,
                                            !.status = "returned"]]
            /\ UNCHANGED <<room_connections, inbox>>
       ELSE IF r \notin DOMAIN room_connections
            THEN \* self.room_connections[room_id] raises KeyError
                 /\ bc' = [bc EXCEPT ![by] =
                             [NoBroadcast EXCEPT !.room = r, !.msg = next_msg,
                                                 !.status = "raised"]]
                 /\ UNCHANGED <<room_connections, inbox>>
            ELSE \E run \in {RunBroadcast(
                               BroadcastAdvance(
                                   [room |-> r, it |-> 0, cur |-> NoConn,
                                    msg |-> next_msg,
                                    start |-> room_connections[r],
                                    failed |-> {}, changed |-> FALSE,
                                    status |-> "running"],
                                   room_connections[r], exclude_websocket),
                               room_connections[r], exclude_websocket, << >>)} :
                    /\ bc' = [bc EXCEPT ![by] = run.b]
                    /\ room_connections' = [room_connections EXCEPT ![r] = run.lst]
                    /\ inbox' = [p \in Conns |->
                                    inbox[p] \o [i \in 1..Count(run.sent, p) |-> next_msg]]
    /\ UNCHANGED <<active_connections, pc, room_of, broken>>
    /\ UNCHANGED otherThanRoom

NextManager ==
    \/ \E c \in ManagerPeers, r \in ManagerRooms, accepted \in AcceptOutcomes :
          ManagerConnect(c, r, accepted)
    \/ \E c \in ManagerPeers, r \in ManagerRooms : ManagerDisconnect(c, r)
    \/ \E c \in ManagerPeers : ManagerBreak(c)
    \/ \E by \in ManagerPeers, r \in ManagerRooms :
          \E exclude_websocket \in {NoConn, by} :
             ManagerBroadcast(by, r, exclude_websocket)

SpecManager == Init /\ [][NextManager]_vars

\* C25: a broadcast_to_room call made on a room that every peer has left, or
\* on a room id that never had a peer, sends the message to nobody and
\* returns without raising.
C25_EmptyRoomBroadcastIsNoOp ==
    \A by \in Conns :
        (bc[by].status # "none" /\ bc[by].start = << >>) =>
            /\ bc[by].status = "returned"
            /\ \A p \in Conns : ~Contains(inbox[p], bc[by].msg)

\* a peer joined room 1 and left it, then a broadcast was made to room 1
C25_Witness ==
    \E by \in Conns :
        /\ bc[by].status = "returned" /\ bc[by].room = 1 /\ bc[by].start = << >>
        /\ 1 \in DOMAIN room_connections

\* C26: connect is idempotent: however often a peer was connected to a room,
\* the room's list holds it once (so it is sent a broadcast once and one
\* disconnect removes it).
C26_JoinIsIdempotent ==
    \A r \in DOMAIN room_connections, c \in Conns : Count(room_connections[r], c) <= 1

\* ------------------------------------------------------------------------
\* Several caption events in the rooms: the handlers' broadcasts interleave at
\* `await connection.send_text(message)`
\* ------------------------------------------------------------------------
MaxFifoMsgs == 2             \* caption events handled over the whole run

\* An audio_data / image_data message is taken from receive_text, its result
\* is built and broadcast_to_room is invoked; next_msg numbers the invocations.
FifoEvent(c) ==
    /\ next_msg <= MaxFifoMsgs
    /\ next_msg' = next_msg + 1
    /\ StartBroadcast(c)
    /\ UNCHANGED otherThanRoom

NextFifo ==
    \/ \E c \in Conns, r \in Rooms : Connect(c, r)
    \/ \E c \in Conns : ReceiveMalformed(c)
    \/ \E c \in Conns : FifoEvent(c)
    \/ \E s \in Conns : SendComplete(s)
    \/ \E s \in Conns : BroadcastReturn(s)

SpecFifo == Init /\ [][NextFifo]_vars

\* C28: delivery in a room is in the order of the broadcast_to_room
\* invocations: a peer that was sent two messages was sent the one invoked
\* first before the one invoked second.
C28_FifoPerRoom ==
    \A p \in Conns : \A i, j \in DOMAIN inbox[p] :
        i < j => inbox[p][i] <= inbox[p][j]

\* C29: a handler is back in receive_text, where it takes the next event of
\* its connection, only when the broadcast of the event before has returned:
\* no connection has an event in flight while it starts another.
C29_SequentialPerConnection ==
    \A c \in Conns :
        /\ pc[c] = "receive" => bc[c].status = "none"
        /\ bc[c].status = "running" => pc[c] = "bc_send"

\* connection c is broadcasting its second event after every other connection
\* was sent its first one
C29_Witness ==
    \E c \in Conns :
        /\ bc[c].status = "running" /\ bc[c].msg = 2
        /\ \A d \in Conns \ {c} : Contains(inbox[d], 1)

\* ------------------------------------------------------------------------
\* transcribe when a backend call may not return
\* ------------------------------------------------------------------------
MaxDeadlineRequests == 1     \* voice_to_text calls over the whole run

DeadlineRequest ==
    /\ requests < MaxDeadlineRequests
    /\ \E language \in Languages, user_id \in UserIds :
          VoiceRequest(language, user_id, TRUE)

\* self.google_client.recognize(config=config, audio=audio), or the
\* recognizer.AcceptWaveform / FinalResult calls of the Vosk tier, does not
\* return.  The calls are made synchronously, without a timeout argument and
\* outside asyncio.wait_for: the coroutine stays in the call.
TierHangs ==
    /\ \/ v.pc = "google" /\ google_ready
       \/ v.pc = "vosk" /\ vosk_ready
    /\ v' = [v EXCEPT !.calls = Append(@, v.pc), !.pc = "in_backend_call"]
    /\ UNCHANGED <<google_ready, vosk_ready, requests, caption_history, next_id, responses>>
    /\ UNCHANGED otherThanVoice

NextDeadline ==
    \/ DeadlineRequest
    \/ GoogleTier
    \/ VoskTier
    \/ SimulateTier
    \/ VoiceReturn
    \/ TierHangs

\* every step that can be taken is taken: a tier that returns is followed by
\* the rest of transcribe
SpecDeadline == InitVoice /\ [][NextDeadline]_vars /\ WF_vars(NextDeadline)

\* C30: every tier attempt is bounded by a deadline, so a transcribe call that
\* has reached a tier eventually returns to voice_to_text even when the
\* tier's backend call does not return.
C30_TranscribeReturns ==
    (v.pc \in {"google", "vosk"}) ~> (v.pc = "idle")

\* ------------------------------------------------------------------------
\* get_statistics on the captions of the store
\* ------------------------------------------------------------------------
MaxStatsCaptions == 3        \* captions created over the whole run

\* user_id and language values that reach create_caption: voice_to_text and
\* sign_to_text pass on message.get("user_id") and message.get("language", "en")
\* of the inbound JSON message as they are: a string, None (no user_id key),
\* or a JSON array, which json.loads turns into a list
JsonList == "['u1']"
StatsUserIds == {"u1", "u2", "None", JsonList}
StatsLanguages == {"en", "ta", JsonList}

\* a dict key must be hashable: a list is not (TypeError)
Hashable(value) == value # JsonList

\* len([c for c in self.caption_history if c.get("type") == type])
CountType(history, type) ==
    Cardinality({i \in DOMAIN history : history[i].type = type})

\* the dict that counts the captions by the value of one key:
\* d[k] = d.get(k, 0) + 1 over the history
CountBy(history, key) ==
    [k \in {history[i][key] : i \in DOMAIN history} |->
        Cardinality({i \in DOMAIN history : history[i][key] = k})]

\* CaptionService.get_statistics(): a TypeError of the counting loops ends in
\* the except branch, which returns {}
get_statistics(history) ==
    IF Len(history) = 0
    THEN [total_captions |-> 0, voice_captions |-> 0, sign_captions |-> 0,
          languages |-> << >>, users |-> << >>, average_confidence |-> 0]
    ELSE IF \E i \in DOMAIN history :
               ~Hashable(history[i].language) \/ ~Hashable(history[i].user_id)
         THEN << >>
         ELSE [total_captions |-> Len(history),
               voice_captions |-> CountType(history, "voice"),
               sign_captions |-> CountType(history, "sign"),
               languages |-> CountBy(history, "language"),
               users |-> CountBy(history, "user_id"),
               average_confidence |-> 95]

GetStatistics ==
    /\ queried' = [called |-> TRUE, limit |-> 0,
                   result |-> get_statistics(caption_history)]
    /\ translation' = NoTranslation
    /\ UNCHANGED <<caption_history, next_id, inserted>>
    /\ UNCHANGED otherThanCaption

StatsCreate ==
    /\ next_id <= MaxStatsCaptions
    /\ \E type \in {"voice", "sign"}, user_id \in StatsUserIds,
          language \in StatsLanguages :
          CreateCaption(PyStr(YES), type, user_id, language)

NextStats ==
    \/ StatsCreate
    \/ GetStatistics
    \/ ClearHistory

SpecStats == Init /\ [][NextStats]_vars

\* the sum of the counts of a dict
RECURSIVE SumCounts(_, _)
SumCounts(d, keys) ==
    IF keys = {} THEN 0
    ELSE LET k == CHOOSE x \in keys : TRUE
         IN  d[k] + SumCounts(d, keys \ {k})

\* C31: the dict get_statistics returns for a history of voice and sign
\* captions has total_captions = len(caption_history) = voice_captions +
\* sign_captions, and its per-language and its per-user counts each sum to
\* total_captions (all counts are 0 on the empty history).
C31_StatisticsConsistent ==
    queried.called =>
        /\ "total_captions" \in DOMAIN queried.result
        /\ queried.result.total_captions = Len(caption_history)
        /\ queried.result.total_captions =
              queried.result.voice_captions + queried.result.sign_captions
        /\ SumCounts(queried.result.languages, DOMAIN queried.result.languages) =
              queried.result.total_captions
        /\ SumCounts(queried.result.users, DOMAIN queried.result.users) =
              queried.result.total_captions

\* ------------------------------------------------------------------------
\* The handlers on the one event loop thread, with the time a backend call takes
\* ------------------------------------------------------------------------
MaxLoopMsgs == 2             \* caption events handled over the whole run

EventKinds == {"audio_data", "image_data"}

\* the event's recognition makes a call into a backend: google_client.recognize
\* for audio when the client was initialised, self.model.predict for an image
\* when the model was loaded
HasBackendCall(kind) ==
    IF kind = "audio_data" THEN google_ready ELSE is_model_ready

\* google_client.recognize(...) and self.model.predict(...) are synchronous
\* calls made directly inside the coroutine (no run_in_executor, no thread):
\* until the call returns the event loop thread is inside it and runs no
\* other task.
LoopFree == \A c \in Conns : pc[c] # "in_backend_call"

\* a message is taken from receive_text and its recognition enters the backend
BackendEnter(c, kind) ==
    /\ LoopFree
    /\ pc[c] = "receive"
    /\ ~broken[c]
    /\ next_msg <= MaxLoopMsgs
    /\ HasBackendCall(kind)
    /\ pc' = [pc EXCEPT ![c] = "in_backend_call"]
    /\ UNCHANGED <<active_connections, room_connections, room_of, broken, inbox, next_msg, bc>>
    /\ UNCHANGED otherThanRoom

\* the backend call returns; the result is built and broadcast_to_room entered
BackendReturn(c) ==
    /\ pc[c] = "in_backend_call"
    /\ next_msg' = next_msg + 1
    /\ EnterBroadcast(c)
    /\ UNCHANGED otherThanRoom

\* an event whose recognition makes no backend call (simulation)
LoopEvent(c, kind) ==
    /\ LoopFree
    /\ ~HasBackendCall(kind)
    /\ next_msg <= MaxLoopMsgs
    /\ next_msg' = next_msg + 1
    /\ StartBroadcast(c)
    /\ UNCHANGED otherThanRoom

\* what the handler of d does next once its send or its broadcast is over
HandlerStep(d) == LoopFree /\ (SendComplete(d) \/ BroadcastReturn(d))

LoopConnect == LoopFree /\ \E c \in Conns, r \in Rooms : Connect(c, r)

LoopHandlerStep == \E d \in Conns : HandlerStep(d)

NextLoop ==
    \/ LoopConnect
    \/ \E c \in Conns, kind \in EventKinds : BackendEnter(c, kind)
    \/ \E c \in Conns : BackendReturn(c)
    \/ \E c \in Conns, kind \in EventKinds : LoopEvent(c, kind)
    \/ LoopHandlerStep

SpecLoop == InitPipeline /\ [][NextLoop]_vars

\* C35: while the event of one connection is inside a backend call, the
\* handler of another connection that is in the middle of its own broadcast
\* can go on.
C35_OtherSessionsProgress ==
    \A c, d \in Conns :
        (pc[c] = "in_backend_call" /\ pc[d] \in {"bc_send", "bc_done"}) =>
            ENABLED HandlerStep(d)

\* ------------------------------------------------------------------------
\* create_caption called by the handlers of several sessions
\* ------------------------------------------------------------------------
MaxAppendCaptions == 102     \* captions created over the whole run
SoloCaptions == 97           \* captions the first session creates before a
                             \* second session sends events too

\* voice_to_text / sign_to_text of one session reaches create_caption.  The
\* call (the dict, add_to_history with its append and its slice) has no await:
\* it runs to its return before the handler of another session runs.
AppendCall(user_id, type) ==
    /\ next_id <= MaxAppendCaptions
    /\ next_id <= SoloCaptions => (user_id = "u1" /\ type = "voice")
    /\ CreateCaption(PyStr(YES), type, user_id, "en")

NextAppend ==
    \E user_id \in UserIds, type \in {"voice", "sign"} : AppendCall(user_id, type)

SpecAppend == Init /\ [][NextAppend]_vars

\* C36: whatever the order in which the sessions' create_caption calls come,
\* no append is lost and none is made twice: the history holds one caption per
\* call, in the order of the calls (ids are handed out in that order), and
\* only the last max_history of them.
C36_AppendsSerialized ==
    /\ Len(caption_history) =
          (IF inserted <= max_history THEN inserted ELSE max_history)
    /\ inserted = next_id - 1
    /\ \A i \in DOMAIN caption_history :
          caption_history[i].id = next_id - Len(caption_history) + i - 1

\* two sessions' captions alternate at the end of a history that has been cut
\* to max_history
C36_Witness ==
    /\ inserted = max_history + 2
    /\ Len(caption_history) = max_history
    /\ caption_history[max_history].user_id = "u2"
    /\ caption_history[max_history - 1].user_id = "u1"
    /\ caption_history[max_history - 2].user_id = "u2"
    /\ caption_history[max_history - 2].type = "sign"

\* ------------------------------------------------------------------------
\* ping messages among the caption events
\* ------------------------------------------------------------------------
MaxPings == 1                \* ping messages handled over the whole run
MaxPingConns == 2            \* connections opened in the ping scenario
MaxPingRooms == 1            \* rooms they join

\* {"type": "pong"} in an inbox (caption messages are numbered from 1)
Pong == 0

\* mutation of the code: the pong goes to the room
PongReceivers_Room(c) == Range(room_connections[room_of[c]])

\* send_personal_message(message, websocket): await websocket.send_text(message)
PongReceivers(c) == {c}

RECURSIVE SumPongs(_)
SumPongs(S) ==
    IF S = {} THEN 0
    ELSE LET c == CHOOSE x \in S : TRUE
         IN  Count(inbox[c], Pong) + (IF pc[c] = "pong_send" THEN 1 ELSE 0)
             + SumPongs(S \ {c})

\* a {"type": "ping"} message is taken from receive_text: the handler calls
\* send_personal_message and is suspended in `await websocket.send_text`
ReceivePing(c) ==
    /\ pc[c] = "receive"
    /\ ~broken[c]
    /\ SumPongs(Conns) < MaxPings
    /\ pc' = [pc EXCEPT ![c] = "pong_send"]
    /\ UNCHANGED <<active_connections, room_connections, room_of, broken, inbox, next_msg, bc>>
    /\ UNCHANGED otherThanRoom

\* the send of the pong completes and the handler waits in receive_text again;
\* or it raises (the client has gone meanwhile), which ends the handler in
\* `except Exception` with manager.disconnect
PongComplete(c, raises) ==
    /\ pc[c] = "pong_send"
    /\ ~broken[c]
    /\ IF ~raises
       THEN /\ inbox' = [p \in Conns |->
                           IF p \in PongReceivers(c)
                           THEN Append(inbox[p], Pong) ELSE inbox[p]]
            /\ pc' = [pc EXCEPT ![c] = "receive"]
            /\ UNCHANGED <<active_connections, room_connections, bc, broken>>
       ELSE /\ broken' = [broken EXCEPT ![c] = TRUE]
            /\ active_connections' = DisconnectActive(c)
            /\ room_connections' = DisconnectRooms(c, room_of[c])
            /\ pc' = [pc EXCEPT ![c] = "ended"]
            /\ bc' = NoteChange(bc, room_of[c], c)
            /\ UNCHANGED inbox
    /\ UNCHANGED <<room_of, next_msg>>
    /\ UNCHANGED otherThanRoom

\* the connections that open in this scenario
PingConnect ==
    \E c \in Conns, r \in Rooms :
        c <= MaxPingConns /\ r <= MaxPingRooms /\ Connect(c, r)

\* the caption traffic around the pings: well-formed image_data messages
PingImage ==
    \E c \in Conns, hand \in BOOLEAN, class \in {13, 28} :
        ImageEvent(c, "media", "image", hand,
                   [kind |-> "prediction", class |-> class, confidence |-> 95],
                   PyStr(YES))

NextPing ==
    \/ PingConnect
    \/ PingImage
    \/ \E s \in Conns : SendComplete(s)
    \/ \E s \in Conns : BroadcastReturn(s)
    \/ \E c \in Conns : ReceivePing(c)
    \/ \E c \in Conns, raises \in BOOLEAN : PongComplete(c, raises)

SpecPing == InitPipeline /\ [][NextPing]_vars

\* the handling of connection c's ping ends in this step
PingHandled(c) == pc[c] = "pong_send" /\ pc'[c] # "pong_send"

\* what no ping changes: the caption store, the recognizer's buffers and the
\* broadcasts in progress
PingFrame ==
    /\ UNCHANGED <<caption_history, next_id, inserted, responses, requests>>
    /\ UNCHANGED <<sequence_buffer, sessions, frames, last>>
    /\ UNCHANGED <<next_msg, room_of>>
    /\ \A s \in Conns : bc'[s].status = bc[s].status /\ bc'[s].msg = bc[s].msg

\* C39 as stated: the handling of a ping sends a pong to the connection that
\* sent the ping and to nobody else, broadcasts nothing and leaves the caption
\* history, the sequence buffer and the room membership unchanged.
C39_PingLeavesMembership ==
    [][\A c \in Conns :
          PingHandled(c) =>
              /\ inbox' = [inbox EXCEPT ![c] = Append(@, Pong)]
              /\ UNCHANGED <<active_connections, room_connections>>
              /\ PingFrame]_vars

\* C39 amended: when the pong's send succeeds the above holds; when the send
\* raises, nobody is sent anything, the handler ends and disconnect removes
\* the sender (and nobody else) from active_connections and its room's list;
\* in both cases nothing is broadcast and the caption history and the
\* sequence buffer are unchanged.
C39_PingOnlyPongs ==
    [][\A c \in Conns :
          /\ (pc[c] = "receive" /\ pc'[c] = "pong_send") =>
                /\ UNCHANGED <<active_connections, room_connections, inbox>>
                /\ PingFrame
          /\ PingHandled(c) =>
                /\ PingFrame
                /\ IF ~broken'[c]
                   THEN /\ inbox' = [inbox EXCEPT ![c] = Append(@, Pong)]
                        /\ UNCHANGED <<active_connections, room_connections>>
                        /\ pc'[c] = "receive"
                   ELSE /\ inbox' = inbox
                        /\ active_connections' = DisconnectActive(c)
                        /\ room_connections' = DisconnectRooms(c, room_of[c])
                        /\ pc'[c] = "ended"]_vars

\* a connection has its pong, a peer of its room has none, and a caption is
\* in the history
C39_Witness ==
    \E c, d \in Conns :
        /\ c # d /\ room_of[c] = room_of[d]
        /\ pc[c] = "receive" /\ pc[d] = "receive"
        /\ Contains(room_connections[room_of[c]], c)
        /\ Contains(room_connections[room_of[c]], d)
        /\ Contains(inbox[c], Pong)
        /\ ~Contains(inbox[d], Pong)
        /\ caption_history # << >>

\* ------------------------------------------------------------------------
\* Properties of broadcast_to_room
\* ------------------------------------------------------------------------
\* the connections other than s in the list broadcast_to_room started on
Recipients(s) == Range(bc[s].start) \ {s}

\* the rooms whose list holds connection c
RoomsOf(c) == {r \in DOMAIN room_connections : Contains(room_connections[r], c)}

C32_NoChangeWhileIterating ==
    \A s \in Conns : bc[s].status = "running" => ~bc[s].changed

\* C33: when a broadcast_to_room call ends, every connection that was in the
\* room's list when the call started and is in it at the end, is not the
\* excluded one and has a sound channel has been sent the message, whatever
\* joins and leaves happened while the call was suspended in a send.  (Calls
\* that removed a peer themselves are left out: they are the subject of C1.)
C33_StayingPeersReceive ==
    [][\A s \in Conns :
          (bc[s].status = "running" /\ bc'[s].status # "running"
              /\ bc'[s].failed = {}) =>
              \A p \in Range(bc[s].start) \ {s} :
                  ( /\ Contains(room_connections'[bc[s].room], p)
                    /\ ~broken'[p] )
                  => Contains(inbox'[p], bc[s].msg)]_vars

\* broadcast_to_room of handler s begins `await p.send_text(message)` in this step
StartsSend(s, p) ==
    /\ bc'[s].status = "running"
    /\ bc'[s].cur = p
    /\ bc'[s].it # bc[s].it

\* C34: once a connection's disconnect has completed, no broadcast_to_room
\* call, whether it begins afterwards or was in progress, begins a send to
\* that connection: a send begins only to a connection of the room's list.
C34_NoSendToPeerThatLeft ==
    [][\A s, p \in Conns :
          StartsSend(s, p) =>
              /\ pc[p] # "ended"
              /\ Contains(room_connections[bc'[s].room], p)]_vars

\* a broadcast over a room of three went on and returned after one of the
\* peers it had not yet reached had left: that peer was not sent the message
C34_Witness ==
    \E s, p, q \in Conns :
        /\ pc[s] = "bc_done" /\ bc[s].changed /\ bc[s].failed = {}
        /\ Range(bc[s].start) = {s, p, q} /\ Len(bc[s].start) = 3
        /\ pc[p] = "ended" /\ ~Contains(inbox[p], bc[s].msg)
        /\ pc[q] = "receive" /\ Contains(inbox[q], bc[s].msg)

\* C37: rooms are isolated: whenever a connection is sent a message, the
\* message is the one of a broadcast_to_room call on the room the connection
\* joined, and the connection is in that room's list when the send begins.
C37_RoomsIsolated ==
    [][\A p \in Conns :
          /\ inbox'[p] # inbox[p] =>
                \E s \in Conns :
                    /\ bc[s].status = "running" /\ bc[s].cur = p
                    /\ bc[s].room = room_of[p]
                    /\ inbox'[p] = Append(inbox[p], bc[s].msg)
          /\ \A s \in Conns :
                StartsSend(s, p) =>
                    /\ bc'[s].room = room_of[p]
                    /\ Contains(room_connections'[bc'[s].room], p)]_vars

\* a broadcast in one room has returned and reached a peer there, while a
\* connection of another room has received nothing
C37_Witness ==
    \E s, p, q \in Conns :
        /\ pc[s] = "bc_done" /\ p \in Recipients(s)
        /\ Contains(inbox[p], bc[s].msg)
        /\ pc[q] = "receive" /\ room_of[q] # bc[s].room
        /\ RoomsOf(q) = {room_of[q]}
        /\ inbox[q] = << >>

\* C38: once the handler of a connection has ended, by WebSocketDisconnect or
\* by another exception, the connection is in neither active_connections nor
\* a room's list, and (as this holds in every later state) it stays out.
C38_EndedHandlerIsGone ==
    \A c \in Conns :
        pc[c] = "ended" =>
            /\ ~Contains(active_connections, c)
            /\ RoomsOf(c) = {}

\* two handlers have ended, one of them by the exception of its own
\* broadcast, and a third connection is still in the room
C38_Witness ==
    \E c, d, e \in Conns :
        /\ c # d
        /\ pc[c] = "ended" /\ bc[c].status = "raised"
        /\ pc[d] = "ended" /\ bc[d].status = "none"
        /\ room_of[c] = room_of[d]
        /\ pc[e] = "receive" /\ RoomsOf(e) = {room_of[c]}

\* C1: a send failure on one peer does not abort delivery to the others: when a
\* broadcast has returned and nobody else changed the room's list meanwhile,
\* every non-excluded peer of the room whose channel is sound has the message.
C1_FailureDoesNotAbortDelivery ==
    \A s \in Conns :
        (pc[s] = "bc_done" /\ ~bc[s].changed) =>
            \A p \in Recipients(s) :
                ~broken[p] => Count(inbox[p], bc[s].msg) >= 1

\* C2: with no failed send and no membership change during the call, the
\* message went exactly once to every connection of the room except the
\* excluded one, and to nobody else.
C2_ExactlyOncePerPeer ==
    \A s \in Conns :
        (pc[s] = "bc_done" /\ ~bc[s].changed /\ bc[s].failed = {}) =>
            \A p \in Conns :
                Count(inbox[p], bc[s].msg) = IF p \in Recipients(s) THEN 1 ELSE 0

C2_Witness ==
    \E s \in Conns :
        /\ pc[s] = "bc_done" /\ ~bc[s].changed /\ bc[s].failed = {}
        /\ s \in Range(bc[s].start)
        /\ Cardinality(Recipients(s)) >= 2
        /\ \A p \in Recipients(s) : Count(inbox[p], bc[s].msg) = 1

\* C3: when broadcast_to_room has returned, every peer whose send failed in it
\* is out of the room's list and get_room_participants does not count it.
C3_FailedPeerRemoved ==
    \A s \in Conns :
        pc[s] = "bc_done" =>
            \A p \in bc[s].failed :
                /\ ~Contains(room_connections[bc[s].room], p)
                /\ get_room_participants(bc[s].room) =
                      Cardinality(Range(room_connections[bc[s].room]) \ {p})

C3_Witness ==
    \E s \in Conns :
        /\ pc[s] = "bc_done"
        /\ bc[s].failed # {}
        /\ get_room_participants(bc[s].room) >= 1

\* C4: broadcast_to_room never raises to websocket_endpoint, so no sender's
\* handler is ended (and the sender disconnected) by another peer's failed send.
C4_BroadcastNeverRaises ==
    \A s \in Conns : bc[s].status # "raised"

TypeOK ==
    /\ \A c \in Conns : pc[c] \in {"new", "receive", "bc_send", "bc_done", "ended"}
    /\ next_msg \in 1..(MaxMsgs + 1)
====
